---- MODULE Spec2Model ----
(***************************************************************************)
(* A model of the supply-chain graph pipeline: entity resolution and       *)
(* relation extraction (graph_builder.py), graph assembly (build_graph),   *)
(* and the two risk models (risk_modeler.py).                              *)
(*                                                                         *)
(* Strings are sequences of one-character strings, so that lowercasing,    *)
(* stripping, substring tests and the regular expressions of the source    *)
(* are computed character by character.  Floats are exact rationals        *)
(* <<numerator, denominator>> with a positive denominator.                 *)
(***************************************************************************)
EXTENDS Integers, Sequences, FiniteSets, TLC

\* ------------------------------------------------------------------------
\* Characters and Python's str / re primitives
\* ------------------------------------------------------------------------

\* The characters of the model in code-point order.
Ascii == <<"\t","\n"," ","%","-",".","/","0","1","2","3","4","5","6","7","8","9","A","B","C","D","E","F","G","H","I","J","K","L","M","N","O","P","Q","R","S","T","U","V","W","X","Y","Z","_","a","b","c","d","e","f","g","h","i","j","k","l","m","n","o","p","q","r","s","t","u","v","w","x","y","z">>

UpperChars == <<"A","B","C","D","E","F","G","H","I","J","K","L","M","N","O","P","Q","R","S","T","U","V","W","X","Y","Z">>

LowerChars == <<"a","b","c","d","e","f","g","h","i","j","k","l","m","n","o","p","q","r","s","t","u","v","w","x","y","z">>

DigitChars == {"0","1","2","3","4","5","6","7","8","9"}

Range(s) == {s[i] : i \in DOMAIN s}

\* ord(c)
Ord(c) == CHOOSE i \in DOMAIN Ascii : Ascii[i] = c

\* c.lower()
LowerChar(c) ==
    IF \E i \in DOMAIN UpperChars : UpperChars[i] = c
    THEN LowerChars[CHOOSE i \in DOMAIN UpperChars : UpperChars[i] = c]
    ELSE c

\* s.lower()
Lower(s) == [i \in DOMAIN s |-> LowerChar(s[i])]

\* \s of re, and the characters str.strip() removes
IsSpace(c) == c \in {" ", "\t", "\n"}

\* \w of re
IsWord(c) == c \in Range(UpperChars) \cup Range(LowerChars) \cup DigitChars \cup {"_"}

RECURSIVE LStrip(_)
LStrip(s) == IF s # <<>> /\ IsSpace(Head(s)) THEN LStrip(Tail(s)) ELSE s

RECURSIVE RStrip(_)
RStrip(s) ==
    IF s # <<>> /\ IsSpace(s[Len(s)]) THEN RStrip(SubSeq(s, 1, Len(s) - 1)) ELSE s

\* s.strip()
Strip(s) == RStrip(LStrip(s))

\* s[lo:] with lo counted from 0
From(s, lo) == SubSeq(s, lo + 1, Len(s))

\* s.startswith(p, at) with at counted from 0
StartsWithAt(s, p, at) ==
    /\ at + Len(p) <= Len(s)
    /\ \A i \in 1..Len(p) : s[at + i] = p[i]

\* needle in hay, were the empty string in no string
ContainsNonEmpty(hay, needle) ==
    /\ needle # <<>>
    /\ \E at \in 0..(Len(hay) - Len(needle)) : StartsWithAt(hay, needle, at)

\* needle in hay
Contains(hay, needle) ==
    \E at \in 0..(Len(hay) - Len(needle)) : StartsWithAt(hay, needle, at)

\* re.sub(r'[^\w\s]', '', s)
RECURSIVE StripPunctuation(_)
StripPunctuation(s) ==
    IF s = <<>> THEN <<>>
    ELSE IF IsWord(Head(s)) \/ IsSpace(Head(s))
         THEN <<Head(s)>> \o StripPunctuation(Tail(s))
         ELSE StripPunctuation(Tail(s))

\* s.replace(old, new), old not empty: leftmost non-overlapping occurrences
RECURSIVE Replace(_, _, _)
Replace(s, old, new) ==
    IF Len(s) < Len(old) THEN s
    ELSE IF StartsWithAt(s, old, 0)
         THEN new \o Replace(From(s, Len(old)), old, new)
         ELSE <<Head(s)>> \o Replace(Tail(s), old, new)

\* a < b for strings (code-point order)
RECURSIVE StrLess(_, _)
StrLess(a, b) ==
    IF b = <<>> THEN FALSE
    ELSE IF a = <<>> THEN TRUE
    ELSE IF Head(a) # Head(b) THEN Ord(Head(a)) < Ord(Head(b))
    ELSE StrLess(Tail(a), Tail(b))

Max(S) == CHOOSE x \in S : \A y \in S : y <= x

Min(S) == CHOOSE x \in S : \A y \in S : x <= y

\* ------------------------------------------------------------------------
\* graph_builder.py: the alias table
\* ------------------------------------------------------------------------

FXNCN_3 == <<"F","x","n","c","n"," ","3">>
FOXCONN_UNIT_3 == <<"F","o","x","c","o","n","n"," ","U","n","i","t"," ","3">>
SUNRISE_TEXTILE_INDIA == <<"S","u","n","r","i","s","e"," ","T","e","x","t","i","l","e"," ","I","n","d","i","a">>
BRAND_A_DC == <<"B","r","a","n","d"," ","A"," ","D","C">>
OETX == <<"O","E","T","X">>
VN == <<"V","N">>
FCN3 == <<"F","C","N","3">>
FOXCONN_FACILITY_NO_3 == <<"F","o","x","c","o","n","n"," ","F","a","c","i","l","i","t","y"," ","N","o","."," ","3">>
SUNRISE_TEXTILES == <<"S","u","n","r","i","s","e"," ","T","e","x","t","i","l","e","s">>
BRAND_A_DISTRIBUTION_CENTER == <<"B","r","a","n","d"," ","A"," ","D","i","s","t","r","i","b","u","t","i","o","n"," ","C","e","n","t","e","r">>
OEKO_TEX == <<"O","E","K","O","-","T","E","X">>
VIETNAM == <<"V","i","e","t","n","a","m">>

\* SIMILARITY_MAP as its items() in insertion order: <<alias, canonical>>
SIMILARITY_MAP ==
    << <<FXNCN_3, FOXCONN_FACILITY_NO_3>>,
       <<FOXCONN_UNIT_3, FOXCONN_FACILITY_NO_3>>,
       <<SUNRISE_TEXTILE_INDIA, SUNRISE_TEXTILES>>,
       <<BRAND_A_DC, BRAND_A_DISTRIBUTION_CENTER>>,
       <<OETX, OEKO_TEX>>,
       <<VN, VIETNAM>>,
       <<FCN3, FOXCONN_FACILITY_NO_3>> >>

\* set(SIMILARITY_MAP.values())
canonical_names == {SIMILARITY_MAP[i][2] : i \in DOMAIN SIMILARITY_MAP}

\* the for loop of _preprocess_name from entry i on
RECURSIVE ExpandAbbreviations(_, _)
ExpandAbbreviations(name, i) ==
    IF i > Len(SIMILARITY_MAP) THEN name
    ELSE ExpandAbbreviations(
             Replace(name, Lower(SIMILARITY_MAP[i][1]), Lower(SIMILARITY_MAP[i][2])),
             i + 1)

_preprocess_name(name) ==
    ExpandAbbreviations(StripPunctuation(Strip(Lower(name))), 1)

\* ------------------------------------------------------------------------
\* difflib.get_close_matches as resolve_entity calls it (n=1, cutoff=0.8).
\* No character is junk, and the autojunk heuristic needs 200 characters.
\* ------------------------------------------------------------------------

\* length of the common run of a[i:ahi] and b[j:bhi] (indices from 0)
RECURSIVE MatchLen(_, _, _, _, _, _)
MatchLen(a, i, ahi, b, j, bhi) ==
    IF i < ahi /\ j < bhi /\ a[i + 1] = b[j + 1]
    THEN 1 + MatchLen(a, i + 1, ahi, b, j + 1, bhi)
    ELSE 0

\* the block of size k > 0 of the table K of common runs that starts
\* earliest in a, and of those the one that starts earliest in b
EarliestInB(K, i, bs, k) == <<i, Min({y \in bs : K[i][y] = k}), k>>

EarliestBlock(K, as, bs, k) ==
    EarliestInB(K, Min({x \in as : \E y \in bs : K[x][y] = k}), bs, k)

\* the longest block of the table K of common runs
LongestBlock(K, as, bs, alo, blo, k) ==
    IF k = 0 THEN <<alo, blo, 0>> ELSE EarliestBlock(K, as, bs, k)

\* SequenceMatcher.find_longest_match: the longest block, of those the one
\* that starts earliest in a, of those the one that starts earliest in b
LongestIn(K, as, bs, alo, blo) ==
    LongestBlock(K, as, bs, alo, blo, Max({0} \cup {K[i][j] : i \in as, j \in bs}))

find_longest_match(a, alo, ahi, b, blo, bhi) ==
    LongestIn([i \in alo..(ahi - 1) |-> [j \in blo..(bhi - 1) |->
                  MatchLen(a, i, ahi, b, j, bhi)]],
              alo..(ahi - 1), blo..(bhi - 1), alo, blo)

\* the total size of SequenceMatcher.get_matching_blocks: the longest block
\* m, and the blocks to the left and to the right of it
RECURSIVE MatchingSize(_, _, _, _, _, _)
AroundBlock(a, alo, ahi, b, blo, bhi, m) ==
    IF m[3] = 0 THEN 0
    ELSE m[3]
         + MatchingSize(a, alo, m[1], b, blo, m[2])
         + MatchingSize(a, m[1] + m[3], ahi, b, m[2] + m[3], bhi)

MatchingSize(a, alo, ahi, b, blo, bhi) ==
    AroundBlock(a, alo, ahi, b, blo, bhi, find_longest_match(a, alo, ahi, b, blo, bhi))

\* SequenceMatcher(None, a, b).ratio() as <<2*matches, length>>
Ratio(a, b) ==
    IF Len(a) + Len(b) = 0 THEN <<1, 1>>
    ELSE <<2 * MatchingSize(a, 0, Len(a), b, 0, Len(b)), Len(a) + Len(b)>>

\* SequenceMatcher.real_quick_ratio() as <<2*matches, length>>
RealQuickRatio(a, b) ==
    IF Len(a) + Len(b) = 0 THEN <<1, 1>>
    ELSE <<2 * (IF Len(a) < Len(b) THEN Len(a) ELSE Len(b)), Len(a) + Len(b)>>

\* the number of positions i of s with s[i] = c
Count(s, c) == Cardinality({i \in DOMAIN s : s[i] = c})

\* SequenceMatcher.quick_ratio(): seq1 = a, seq2 = b; an element of a counts
\* while b still has one of it available
QuickRatio(a, b) ==
    IF Len(a) + Len(b) = 0 THEN <<1, 1>>
    ELSE <<2 * Cardinality({i \in DOMAIN a :
                               Count(SubSeq(a, 1, i), a[i]) <= Count(b, a[i])}),
           Len(a) + Len(b)>>

CUTOFF_NUM == 8

CUTOFF_DEN == 10

\* ratio >= cutoff
ReachesCutoff(ratio) == ratio[1] * CUTOFF_DEN >= CUTOFF_NUM * ratio[2]

\* (score[x], x) >= (score[y], y)
Larger(score, x, y) ==
    \/ score[x][1] * score[y][2] > score[y][1] * score[x][2]
    \/ /\ score[x][1] * score[y][2] = score[y][1] * score[x][2]
       /\ ~StrLess(x, y)

\* heapq.nlargest(1, result) of the pairs (score[x], x)
Largest(score) ==
    IF DOMAIN score = {} THEN <<>>
    ELSE <<CHOOSE x \in DOMAIN score : \A y \in DOMAIN score : Larger(score, x, y)>>

\* get_close_matches(word, possibilities, n=1, cutoff=0.8): the best of the
\* possibilities whose three ratios reach the cutoff, largest (score, x) first
get_close_matches(word, possibilities) ==
    Largest([x \in {y \in possibilities :
                       /\ ReachesCutoff(RealQuickRatio(y, word))
                       /\ ReachesCutoff(QuickRatio(y, word))
                       /\ ReachesCutoff(Ratio(y, word))}
             |-> Ratio(x, word)])

\* ------------------------------------------------------------------------
\* graph_builder.py: resolve_entity
\* ------------------------------------------------------------------------

\* _preprocess_name(alias) of each entry, as the loop recomputes it
processed_alias ==
    << _preprocess_name(SIMILARITY_MAP[1][1]), _preprocess_name(SIMILARITY_MAP[2][1]),
       _preprocess_name(SIMILARITY_MAP[3][1]), _preprocess_name(SIMILARITY_MAP[4][1]),
       _preprocess_name(SIMILARITY_MAP[5][1]), _preprocess_name(SIMILARITY_MAP[6][1]),
       _preprocess_name(SIMILARITY_MAP[7][1]) >>

\* one iteration of the alias loop: does entry i return?
AliasMatches(name, processed_name, i) ==
    \/ Strip(name) = SIMILARITY_MAP[i][1]
    \/ Contains(processed_alias[i], processed_name)

\* the loop, were it to return the alias instead of its canonical name
AliasReturnsKey(name, processed_name, i) == SIMILARITY_MAP[i][1]

\* what the loop returns at entry i
AliasReturn(name, processed_name, i) == SIMILARITY_MAP[i][2]

\* step 1 of resolve_entity: the canonical name of the first entry that
\* returns, <<>> if none does
FirstAlias(name, processed_name, hits) ==
    IF hits = {} THEN <<>> ELSE <<AliasReturn(name, processed_name, Min(hits))>>

AliasLoop(name, processed_name) ==
    FirstAlias(name, processed_name,
               {i \in DOMAIN SIMILARITY_MAP : AliasMatches(name, processed_name, i)})

\* steps 2 and 3 of resolve_entity
FuzzyOrSelf(stripped, closest_match) ==
    IF closest_match # <<>> THEN closest_match[1] ELSE stripped

AfterAliasLoop(name, from_alias) ==
    IF from_alias # <<>> THEN from_alias[1]
    ELSE FuzzyOrSelf(Strip(name), get_close_matches(Strip(name), canonical_names))

resolve_entity(name) == AfterAliasLoop(name, AliasLoop(name, _preprocess_name(name)))

\* ------------------------------------------------------------------------
\* graph_builder.py: extract_relations
\* ------------------------------------------------------------------------

RELATION_MAP ==
    << <<<<"S","u","p","p","l","i","e","s">>, "SUPPLIES">>,
       <<<<"D","e","l","i","v","e","r","s">>, "SUPPLIES">>,
       <<<<"S","h","i","p","s"," ","m","a","t","e","r","i","a","l","s">>, "SUPPLIES">>,
       <<<<"P","r","o","d","u","c","e","s">>, "PRODUCES">>,
       <<<<"a","s","s","e","m","b","l","y">>, "FINAL_ASSEMBLY">> >>

KW_TO == <<"t","o">>
KW_FOR == <<"f","o","r">>
VERBS == {<<"s","u","p","p","l","i","e","s">>, <<"d","e","l","i","v","e","r","s">>, <<"s","h","i","p","s">>, <<"p","r","o","d","u","c","e","s">>}
UNKNOWN_MATERIAL == <<"U","N","K","N","O","W","N"," ","M","A","T","E","R","I","A","L">>
FINAL_PRODUCT_ASSEMBLY == <<"f","i","n","a","l"," ","p","r","o","d","u","c","t"," ","a","s","s","e","m","b","l","y">>

\* [\w\s\.]
InNameClass(c) == IsWord(c) \/ IsSpace(c) \/ c = "."

\* the number of \s characters of s from position at (from 0) on
RECURSIVE SpaceRun(_, _)
SpaceRun(s, at) ==
    IF at < Len(s) /\ IsSpace(s[at + 1]) THEN 1 + SpaceRun(s, at + 1) ELSE 0

\* the number of [\w\s\.] characters of s from position at (from 0) on
RECURSIVE NameRun(_, _)
NameRun(s, at) ==
    IF at < Len(s) /\ InNameClass(s[at + 1]) THEN 1 + NameRun(s, at + 1) ELSE 0

\* the length of the (to|for) that starts at position at, 0 if none does
KeywordAt(s, at) ==
    IF StartsWithAt(s, KW_TO, at) THEN Len(KW_TO)
    ELSE IF StartsWithAt(s, KW_FOR, at) THEN Len(KW_FOR)
    ELSE 0

\* (to|for)\s+([\w\s\.]+) matched at position p: <<group(2)>>, or <<>> when
\* it does not match there. \s+ is greedy and gives back one space when the
\* character after the spaces is not in the class.
MatchToAt(s, p) ==
    LET l == KeywordAt(s, p)
        k == SpaceRun(s, p + l)
        q == p + l + k
    IN  IF l = 0 \/ k = 0 THEN <<>>
        ELSE IF q < Len(s) /\ InNameClass(s[q + 1])
             THEN <<SubSeq(s, q + 1, q + NameRun(s, q))>>
        ELSE IF k >= 2 THEN <<SubSeq(s, q, q)>>
        ELSE <<>>

\* re.search(r'(to|for)\s+([\w\s\.]+)', s): <<group(2)>> of the leftmost match
SearchTo(s) ==
    LET at == {p \in 0..(Len(s) - 1) : MatchToAt(s, p) # <<>>}
    IN  IF at = {} THEN <<>> ELSE MatchToAt(s, Min(at))

\* the length of the verb that starts at position at, 0 if none does
VerbAt(s, at) ==
    IF \E v \in VERBS : StartsWithAt(s, v, at)
    THEN Len(CHOOSE v \in VERBS : StartsWithAt(s, v, at))
    ELSE 0

\* (supplies|delivers|ships|produces)\s+(.*?)\s+(to|for) matched at p:
\* <<group(2)>>, or <<>> when it does not match there. The lazy group ends at
\* the first run of spaces that a keyword follows; a dot matches no newline.
MatchMaterialAt(s, p) ==
    LET l == VerbAt(s, p)
        k == SpaceRun(s, p + l)
        b == p + l + k
        ends == {e \in b..Len(s) :
                    /\ \A i \in (b + 1)..e : s[i] # "\n"
                    /\ SpaceRun(s, e) >= 1
                    /\ KeywordAt(s, e + SpaceRun(s, e)) > 0}
    IN  IF l = 0 \/ k = 0 THEN <<>>
        ELSE IF ends # {} THEN <<SubSeq(s, b + 1, Min(ends))>>
        ELSE IF k >= 2 /\ KeywordAt(s, b) > 0 THEN << <<>> >>
        ELSE <<>>

\* re.search of the material pattern: <<group(2)>> of the leftmost match
SearchMaterial(s) ==
    LET at == {p \in 0..(Len(s) - 1) : MatchMaterialAt(s, p) # <<>>}
    IN  IF at = {} THEN <<>> ELSE MatchMaterialAt(s, Min(at))

\* s.split('.')[0]
BeforeDot(s) ==
    LET dots == {i \in DOMAIN s : s[i] = "."}
    IN  IF dots = {} THEN s ELSE SubSeq(s, 1, Min(dots) - 1)

\* the relation type of the first phrase of RELATION_MAP found in the text
RelationType(text_lower) ==
    LET found == {i \in DOMAIN RELATION_MAP : Contains(text_lower, Lower(RELATION_MAP[i][1]))}
    IN  IF found = {} THEN "UNKNOWN_RELATION" ELSE RELATION_MAP[Min(found)][2]

\* material_match.group(2).strip() if material_match and
\* material_match.group(2) else "UNKNOWN MATERIAL"
MaterialOfMatch(material_match) ==
    IF material_match # <<>> /\ material_match[1] # <<>>
    THEN Strip(material_match[1])
    ELSE UNKNOWN_MATERIAL

\* if material == "": material = "UNKNOWN MATERIAL"
MaterialOrUnknown(material) == IF material = <<>> THEN UNKNOWN_MATERIAL ELSE material

\* the material of the text
Material(text_lower) == MaterialOrUnknown(MaterialOfMatch(SearchMaterial(text_lower)))

\* the target of the match: resolve_entity(raw_object_name.split('.')[0].strip())
TargetOfMatch(match_to) == resolve_entity(Strip(BeforeDot(Strip(match_to[1]))))

\* the result of extract_relations once the first pattern was searched for
ExtractMatched(text_lower, match_to) ==
    IF match_to # <<>>
    THEN <<RelationType(text_lower), TargetOfMatch(match_to), Material(text_lower)>>
    ELSE <<>>

ExtractLower(text_lower) == ExtractMatched(text_lower, SearchTo(text_lower))

\* extract_relations(text): <<rel_type, target_name, material>>, or <<>> for None
extract_relations(text) == ExtractLower(Lower(text))

\* ------------------------------------------------------------------------
\* graph_builder.py: build_graph
\* ------------------------------------------------------------------------

\* None, and a dictionary key that is missing: item.get(key) is None for both.
\* A value v that is present is <<v>>.
NONE == <<>>

\* bool(x) of an optional string
Truthy(x) == x # NONE /\ x[1] # <<>>

\* a or b
Or(a, b) == IF Truthy(a) THEN a ELSE b

\* str(n) of an integer n >= 0
RECURSIVE Decimal(_)
Decimal(n) ==
    IF n < 10 THEN <<Ascii[Ord("0") + n]>>
    ELSE Decimal(n \div 10) \o <<Ascii[Ord("0") + (n % 10)]>>

\* _initialize_node_attributes(node_id, canonical_name)
_initialize_node_attributes(node_id, canonical_name) ==
    [ label |-> "Facility",
      id |-> <<"f", "a", "c", "_">> \o Decimal(node_id),
      name |-> canonical_name,
      certifications |-> {},
      tier |-> NONE,
      region |-> NONE,
      risk_score |-> <<0, 1>>,
      dependency_weight |-> <<1, 1>>,
      inventory_buffer |-> 0 ]

\* f with the pair k -> v added or replaced
Put(f, k, v) == [x \in DOMAIN f \cup {k} |-> IF x = k THEN v ELSE f[x]]

\* nx.MultiDiGraph(): the nodes in insertion order, their attribute
\* dictionaries, and the multi-edges in insertion order
EmptyGraph == [order |-> <<>>, data |-> <<>>, edges |-> <<>>]

\* n in G
HasNode(g, n) == n \in DOMAIN g.data

\* G.add_node(n, **attributes) of a node that is not in G
add_node(g, n, attributes) ==
    [g EXCEPT !.order = Append(@, n), !.data = Put(@, n, attributes)]

\* the edge, were it added only when u -> v has none yet
add_edge_once(g, u, v, relation, material, weight) ==
    IF \E i \in DOMAIN g.edges : g.edges[i].u = u /\ g.edges[i].v = v THEN g
    ELSE [g EXCEPT !.edges = Append(@, [u |-> u, v |-> v, key |-> 0,
                                        relation |-> relation,
                                        material |-> material,
                                        weight |-> weight])]

\* G.add_edge(u, v, relation=, material=, weight=) of two nodes of G; the key
\* is the number of edges u -> v there are
add_edge(g, u, v, relation, material, weight) ==
    LET key == Cardinality({i \in DOMAIN g.edges : g.edges[i].u = u /\ g.edges[i].v = v})
    IN  [g EXCEPT !.edges = Append(@, [u |-> u, v |-> v, key |-> key,
                                        relation |-> relation,
                                        material |-> material,
                                        weight |-> weight])]

\* the node, were its id the count of the entities seen before it
EnsureNodeFromZero(st, n) ==
    IF HasNode(st.G, n) THEN st
    ELSE LET node_id_counter == Cardinality(DOMAIN st.facility_nodes)
         IN  [G |-> add_node(st.G, n, _initialize_node_attributes(node_id_counter, n)),
              facility_nodes |-> Put(st.facility_nodes, n, node_id_counter)]

\* the graph and the id table once name n is a node (parts A and C)
EnsureNode(st, n) ==
    IF HasNode(st.G, n) THEN st
    ELSE LET node_id_counter == Cardinality(DOMAIN st.facility_nodes) + 1
         IN  [G |-> add_node(st.G, n, _initialize_node_attributes(node_id_counter, n)),
              facility_nodes |-> Put(st.facility_nodes, n, node_id_counter)]

\* the certification, were it assigned instead of added
ReplaceCertification(certifications, cert) == {resolve_entity(cert)}

\* node_data['certifications'].add(resolve_entity(cert))
AddCertification(certifications, cert) == certifications \cup {resolve_entity(cert)}

\* part B, certifications: if cert: node_data['certifications'].add(...)
MergeCertification(node_data, item) ==
    IF Truthy(item.certification)
    THEN [node_data EXCEPT !.certifications = AddCertification(@, item.certification[1])]
    ELSE node_data

\* if item.get("tier"): node_data['tier'] = item["tier"]
MergeTier(node_data, item) ==
    IF Truthy(item.tier) THEN [node_data EXCEPT !.tier = item.tier] ELSE node_data

\* if item.get("region"): node_data['region'] = resolve_entity(item["region"])
MergeRegion(node_data, item) ==
    IF Truthy(item.region)
    THEN [node_data EXCEPT !.region = <<resolve_entity(item.region[1])>>]
    ELSE node_data

\* the risk score, were it tested like the tier: if item.get("risk_score"): ...
MergeRiskScoreIfTruthy(node_data, item) ==
    IF item.risk_score # NONE /\ item.risk_score[1][1] # 0
    THEN [node_data EXCEPT !.risk_score = item.risk_score[1]]
    ELSE node_data

\* if item.get("risk_score") is not None: ...
MergeRiskScore(node_data, item) ==
    IF item.risk_score # NONE
    THEN [node_data EXCEPT !.risk_score = item.risk_score[1]]
    ELSE node_data

\* if item.get("dependency_weight") is not None: ...
MergeDependencyWeight(node_data, item) ==
    IF item.dependency_weight # NONE
    THEN [node_data EXCEPT !.dependency_weight = item.dependency_weight[1]]
    ELSE node_data

\* if item.get("buffer") is not None: node_data['inventory_buffer'] = ...
MergeBuffer(node_data, item) ==
    IF item.buffer # NONE
    THEN [node_data EXCEPT !.inventory_buffer = item.buffer[1]]
    ELSE node_data

\* part B: the attributes of the node after the item is merged in
MergeAttributes(node_data, item) ==
    MergeBuffer(
        MergeDependencyWeight(
            MergeRiskScore(
                MergeRegion(
                    MergeTier(
                        MergeCertification(node_data, item),
                        item),
                    item),
                item),
            item),
        item)

\* part B applied to the node canonical_name of the graph
MergeIntoNode(st, canonical_name, item) ==
    [st EXCEPT !.G.data[canonical_name] = MergeAttributes(@, item)]

\* G.add_edge(canonical_name, resolved_target_name, relation=, material=, weight=1.0)
InsertEdge(st, canonical_name, resolved_target_name, relation_result) ==
    [st EXCEPT !.G = add_edge(@, canonical_name, resolved_target_name,
                              relation_result[1], relation_result[3], <<1, 1>>)]

\* part C and the edge, once the target is resolved
AddEdgeTo(st, canonical_name, resolved_target_name, relation_result) ==
    InsertEdge(EnsureNode(st, resolved_target_name),
               canonical_name, resolved_target_name, relation_result)

\* if relation_result: ...
AddExtracted(st, canonical_name, relation_result) ==
    IF relation_result = <<>> THEN st
    ELSE AddEdgeTo(st, canonical_name, resolve_entity(relation_result[2]), relation_result)

\* part 2: the edge of the item, if its text has a relation
AddRelation(st, canonical_name, item) ==
    IF ~Truthy(item.relation_text) THEN st
    ELSE AddExtracted(st, canonical_name, extract_relations(item.relation_text[1]))

\* parts A, B and 2 for the subject canonical_name
ProcessSubject(st, canonical_name, item) ==
    AddRelation(MergeIntoNode(EnsureNode(st, canonical_name), canonical_name, item),
                canonical_name, item)

\* if raw_name: ...
ProcessNamed(st, subject, item) ==
    IF ~Truthy(subject) THEN st
    ELSE ProcessSubject(st, resolve_entity(subject[1]), item)

\* the body of the for loop of build_graph for one item
ProcessItem(st, item) == ProcessNamed(st, Or(item.facility_name, item.facility_key), item)

\* the sequences that list the elements of the set S once each
ListsOf(S) ==
    {q \in [1..Cardinality(S) -> S] : \A i, j \in DOMAIN q : i # j => q[i] # q[j]}

\* ------------------------------------------------------------------------
\* risk_modeler.py: numbers
\* ------------------------------------------------------------------------
\* A float is modelled by the fraction it stands for, <<numerator, denominator>>
\* in lowest terms with a positive denominator; rounding is left out.

RECURSIVE Gcd(_, _)
Gcd(a, b) == IF b = 0 THEN a ELSE Gcd(b, a % b)

Abs(x) == IF x < 0 THEN -x ELSE x

Sign(x) == IF x < 0 THEN -1 ELSE 1

Reduce(n, d, g) == <<Sign(d) * (n \div g), Sign(d) * (d \div g)>>

\* n / d for d # 0
Frac(n, d) == Reduce(n, d, Gcd(Abs(n), Abs(d)))

Mul(x, y) == Frac(x[1] * y[1], x[2] * y[2])

Sub(x, y) == Frac(x[1] * y[2] - y[1] * x[2], x[2] * y[2])

LessOver(x, y, g) == x[1] * (y[2] \div g) < y[1] * (x[2] \div g)

\* x < y
Less(x, y) == LessOver(x, y, Gcd(x[2], y[2]))

\* x <= y
AtMost(x, y) == ~Less(y, x)

\* min(x, y) and max(x, y) of Python: the first argument unless the second is
\* smaller, or larger
FMin(x, y) == IF Less(y, x) THEN y ELSE x

FMax(x, y) == IF Less(x, y) THEN y ELSE x

\* data.get(key, default)
Get(data, key, default) == IF key \in DOMAIN data THEN data[key] ELSE default

\* ------------------------------------------------------------------------
\* risk_modeler.py: calculate_edge_weight
\* ------------------------------------------------------------------------

\* dependency = data.get('dependency_weight', 1.0)
Dependency(data) == Get(data, "dependency_weight", <<1, 1>>)

\* buffer_months = data.get('inventory_buffer', 0)
BufferMonths(data) == Get(data, "inventory_buffer", 0)

\* buffer_factor = min(buffer_months / 3, 1.0)
BufferFactor(buffer_months) == FMin(Frac(buffer_months, 3), <<1, 1>>)

\* the elasticity, were it 0.0 for every buffer
NoElasticity(buffer_months) == <<0, 1>>

\* elasticity = 0.1 if buffer_months == 0 else 0.0
Elasticity(buffer_months) == IF buffer_months = 0 THEN <<1, 10>> ELSE <<0, 1>>

\* propagation_weight = dependency * (1.0 - (buffer_factor * 0.5) - (elasticity * 0.1))
PropagationWeight(dependency, buffer_months) ==
    Mul(dependency,
        Sub(Sub(<<1, 1>>, Mul(BufferFactor(buffer_months), <<1, 2>>)),
            Mul(Elasticity(buffer_months), <<1, 10>>)))

\* the weight, were it returned as computed
Unclamped(propagation_weight) == propagation_weight

\* max(0.1, min(propagation_weight, 1.0))
Clamp(propagation_weight) == FMax(<<1, 10>>, FMin(propagation_weight, <<1, 1>>))

calculate_edge_weight(data) ==
    Clamp(PropagationWeight(Dependency(data), BufferMonths(data)))

\* ------------------------------------------------------------------------
\* networkx: the order in which G.edges(...) yields the edges
\* ------------------------------------------------------------------------

\* the position of node n in the order of the nodes
NodeIndex(g, n) == CHOOSE i \in DOMAIN g.order : g.order[i] = n

\* the first edge added from the source of edge i to its target
FirstParallel(g, i) ==
    Min({j \in DOMAIN g.edges : g.edges[j].u = g.edges[i].u /\ g.edges[j].v = g.edges[i].v})

\* edge i is yielded before edge j: by source in the order of the nodes, then
\* by target in the order the source first got an edge to it, then by key
YieldedBefore(g, i, j) ==
    \/ NodeIndex(g, g.edges[i].u) < NodeIndex(g, g.edges[j].u)
    \/ /\ g.edges[i].u = g.edges[j].u
       /\ \/ FirstParallel(g, i) < FirstParallel(g, j)
          \/ FirstParallel(g, i) = FirstParallel(g, j) /\ i < j

\* the edge yielded in place k
EdgeAt(g, k) ==
    g.edges[CHOOSE i \in DOMAIN g.edges :
               Cardinality({j \in DOMAIN g.edges : YieldedBefore(g, j, i)}) = k - 1]

\* G.edges(data=True), G.edges(keys=True, data=True)
EdgeView(g) == [k \in 1..Len(g.edges) |-> EdgeAt(g, k)]

\* ------------------------------------------------------------------------
\* risk_modeler.py: simple_risk_propagation
\* ------------------------------------------------------------------------

\* for _ in range(5)
RELAXATION_PASSES == 5

\* final_risk = {node: G.nodes[node].get('risk_score', 0.0) for node in G.nodes}
InitialRisk(g) == [n \in DOMAIN g.data |-> Get(g.data[n], "risk_score", <<0, 1>>)]

\* the risk of v, were the transferred risk assigned to it
Overwrite(risk_v, transferred_risk) == transferred_risk

\* max(final_risk[v], transferred_risk)
KeepMax(risk_v, transferred_risk) == FMax(risk_v, transferred_risk)

\* the body of the inner loop for the edge e
RelaxEdge(g, risk, e) ==
    [risk EXCEPT ![e.v] =
        KeepMax(@, Mul(risk[e.u], calculate_edge_weight(g.data[e.u])))]

\* the inner loop from the edge in place k on
RECURSIVE RelaxFrom(_, _, _, _)
RelaxFrom(g, risk, view, k) ==
    IF k > Len(view) THEN risk
    ELSE RelaxFrom(g, RelaxEdge(g, risk, view[k]), view, k + 1)

\* a pass that would read every upstream risk from a copy taken when the
\* pass starts, so that a pass carries risk over one edge only
RECURSIVE RelaxFromCopy(_, _, _, _, _)
RelaxFromCopy(g, copy, risk, view, k) ==
    IF k > Len(view) THEN risk
    ELSE RelaxFromCopy(g, copy,
             [risk EXCEPT ![view[k].v] =
                 KeepMax(@, Mul(copy[view[k].u], calculate_edge_weight(g.data[view[k].u])))],
             view, k + 1)

RelaxPassFromCopy(g, risk) == RelaxFromCopy(g, risk, risk, EdgeView(g), 1)

\* one pass: for u, v, data in G.edges(data=True): ...
RelaxPass(g, risk) == RelaxFrom(g, risk, EdgeView(g), 1)

\* ------------------------------------------------------------------------
\* risk_modeler.py: monte_carlo_disruption_simulation
\* ------------------------------------------------------------------------

\* for pass_num in range(3)
CASCADE_PASSES == 3

\* the local failure probability of a risk score
LocalProbability(risk) ==
    IF AtMost(<<9, 10>>, risk) THEN <<1, 5>>
    ELSE IF AtMost(<<7, 10>>, risk) THEN <<1, 10>>
    ELSE <<1, 50>>

\* step 1: failure_prob_local
LocalProbabilities(g) ==
    [n \in DOMAIN g.data |-> LocalProbability(Get(g.data[n], "risk_score", <<0, 1>>))]

\* if is_failed[u]: is_failed[v] = True
CascadeEdge(failed, e) == IF failed[e.u] THEN [failed EXCEPT ![e.v] = TRUE] ELSE failed

\* the inner loop, were it left at the first edge whose source has failed
RECURSIVE CascadeUntilFirst(_, _, _)
CascadeUntilFirst(failed, view, k) ==
    IF k > Len(view) THEN failed
    ELSE IF failed[view[k].u] THEN CascadeEdge(failed, view[k])
    ELSE CascadeUntilFirst(failed, view, k + 1)

\* the inner loop from the edge in place k on
RECURSIVE CascadeFrom(_, _, _)
CascadeFrom(failed, view, k) ==
    IF k > Len(view) THEN failed
    ELSE CascadeFrom(CascadeEdge(failed, view[k]), view, k + 1)

\* a pass that would read the state of every source from a copy taken when
\* the pass starts, so that a pass carries a failure over one edge only
RECURSIVE CascadeFromCopy(_, _, _, _)
CascadeFromCopy(copy, failed, view, k) ==
    IF k > Len(view) THEN failed
    ELSE CascadeFromCopy(copy,
             IF copy[view[k].u] THEN [failed EXCEPT ![view[k].v] = TRUE] ELSE failed,
             view, k + 1)

CascadePassFromCopy(g, failed) == CascadeFromCopy(failed, failed, EdgeView(g), 1)

\* one pass: for u, v, key, data in G.edges(keys=True, data=True): ...
CascadePass(g, failed) == CascadeFrom(failed, EdgeView(g), 1)

\* part C: disruption_count[node] += 1 for every failed node
CountFailed(count, failed) ==
    [n \in DOMAIN count |-> IF failed[n] THEN count[n] + 1 ELSE count[n]]

\* disruption_probability: node -> count / iterations, for iterations # 0
DisruptionProbability(count, n_iterations) ==
    [n \in DOMAIN count |-> Frac(count[n], n_iterations)]

\* the place of node i of the order in sorted(..., key=item[1], reverse=True),
\* which keeps the order of equal items
SortedPlace(g, probability, i) ==
    1 + Cardinality({j \in DOMAIN g.order :
          \/ Less(probability[g.order[i]], probability[g.order[j]])
          \/ probability[g.order[j]] = probability[g.order[i]] /\ j < i})

\* dict(sorted(disruption_probability.items(), ...)) as the sequence of its items
SortedItems(g, probability) ==
    [k \in DOMAIN g.order |->
        LET i == CHOOSE i \in DOMAIN g.order : SortedPlace(g, probability, i) = k
        IN  <<g.order[i], probability[g.order[i]]>>]

\* final_prob = disruption_probability.get("Brand A Distribution Center", 0)
FinalProbability(probability) ==
    IF BRAND_A_DISTRIBUTION_CENTER \in DOMAIN probability
    THEN probability[BRAND_A_DISTRIBUTION_CENTER]
    ELSE <<0, 1>>

\* the dict the simulation returns
SimulationResult(g, n_iterations, local, probability) ==
    [ iterations |-> n_iterations,
      local_failure_probabilities |-> local,
      disruption_probability_by_node |-> SortedItems(g, probability),
      final_product_disruption_prob |-> FinalProbability(probability) ]

\* count / iterations raises ZeroDivisionError for iterations = 0 on a graph
\* that has a node
Raises(n_iterations, count) == n_iterations = 0 /\ DOMAIN count # {}

\* disruption_probability, when the division does not raise
Probabilities(count, n_iterations) ==
    IF n_iterations = 0 THEN count ELSE DisruptionProbability(count, n_iterations)

\* ------------------------------------------------------------------------
\* Bounds and sample inputs
\* ------------------------------------------------------------------------

\* the longest raw name the resolver is given on its own
MaxNameLen == 3

\* the most records build_graph is given
MaxRecords == 3

NameAlphabet == {"n", "V", "N", " ", "."}

RECURSIVE StringsUpTo(_, _)
StringsUpTo(alphabet, n) ==
    IF n = 0 THEN {<<>>}
    ELSE LET shorter == StringsUpTo(alphabet, n - 1)
         IN  shorter \cup {Append(s, c) : s \in shorter, c \in alphabet}

\* raw names: the keys and values of the alias table, near misses of them,
\* and every string over NameAlphabet of up to MaxNameLen characters
RawNames ==
    {SIMILARITY_MAP[i][1] : i \in DOMAIN SIMILARITY_MAP}
    \cup canonical_names
    \cup {Lower(c) : c \in canonical_names}
    \cup {<<"V","i","e","t","n","a","n">>,
          <<"S","u","n","r","i","s","e"," ","T","e","x","t","i","l","e","z">>,
          <<" ","V","i","e","t","n","a","m"," ">>,
          <<"O","E","K","O","T","E","X">>,
          <<"F","o","x","c","o","n","n"," ","F","a","c","i","l","i","t","y"," ","N","o"," ","3">>,
          <<"N","/","A">>,
          <<"G","O","T","S">>,
          <<"I","n","d","i","a">>}
    \cup StringsUpTo(NameAlphabet, MaxNameLen)

\* a record without any field
NoFields ==
    [ facility_name |-> NONE, facility_key |-> NONE, certification |-> NONE,
      tier |-> NONE, region |-> NONE, risk_score |-> NONE,
      dependency_weight |-> NONE, buffer |-> NONE, relation_text |-> NONE ]

\* data_simulator.py line 13
FormFoxconn ==
    [NoFields EXCEPT !.facility_name = <<<<"F","o","x","c","o","n","n"," ","F","a","c","i","l","i","t","y"," ","N","o","."," ","3">>>>,
     !.region = <<<<"V","i","e","t","n","a","m">>>>,
     !.certification = <<<<"O","E","K","O","-","T","E","X">>>>,
     !.tier = <<<<"T","i","e","r"," ","2">>>>,
     !.relation_text = <<<<"S","u","p","p","l","i","e","s"," ","1","0","0","%"," ","c","o","t","t","o","n"," ","y","a","r","n"," ","t","o"," ","S","u","n","r","i","s","e"," ","T","e","x","t","i","l","e","s">>>>]

\* data_simulator.py line 19
ExcelFxncn ==
    [NoFields EXCEPT !.facility_name = <<<<"F","x","n","c","n"," ","3">>>>,
     !.region = <<<<"V","N">>>>,
     !.certification = <<<<"O","E","T","X">>>>,
     !.tier = <<<<"T","i","e","r"," ","2">>>>,
     !.relation_text = <<<<"S","h","i","p","s"," ","m","a","t","e","r","i","a","l","s"," ","t","o"," ","S","u","n","r","i","s","e"," ","T","e","x","t","i","l","e"," ","I","n","d","i","a">>>>]

\* data_simulator.py line 21
ExcelBrandA ==
    [NoFields EXCEPT !.facility_name = <<<<"B","r","a","n","d"," ","A"," ","D","C">>>>,
     !.region = <<<<"U","S">>>>,
     !.certification = <<<<"N","/","A">>>>,
     !.tier = <<<<"B","r","a","n","d">>>>,
     !.relation_text = <<<<"F","i","n","a","l"," ","p","r","o","d","u","c","t"," ","a","s","s","e","m","b","l","y",".">>>>]

\* data_simulator.py line 28
PdfSunrise ==
    [NoFields EXCEPT !.facility_key = <<<<"S","u","n","r","i","s","e"," ","T","e","x","t","i","l","e","s">>>>,
     !.risk_score = << <<78, 100>> >>,
     !.buffer = <<3>>]

\* data_simulator.py line 27
PdfFoxconn ==
    [NoFields EXCEPT !.facility_key = <<<<"F","o","x","c","o","n","n"," ","F","a","c","i","l","i","t","y"," ","N","o","."," ","3">>>>,
     !.risk_score = << <<8, 10>> >>]

\* empty strings and zeroes: an empty tier, region and certification, a risk of 0.0
FormZeroes ==
    [NoFields EXCEPT !.facility_name = <<<<>>>>,
     !.facility_key = <<<<"F","C","N","3">>>>,
     !.certification = <<<<>>>>,
     !.tier = <<<<>>>>,
     !.region = <<<<>>>>,
     !.risk_score = << <<0, 1>> >>,
     !.dependency_weight = << <<7, 10>> >>,
     !.buffer = <<0>>,
     !.relation_text = <<<<"S","u","p","p","l","i","e","s"," ","1","0","0","%"," ","c","o","t","t","o","n"," ","y","a","r","n"," ","t","o"," ","S","u","n","r","i","s","e"," ","T","e","x","t","i","l","e","s">>>>]

\* a second certification of the same entity, and a text whose target is empty
FormGots ==
    [NoFields EXCEPT !.facility_name = <<<<"F","o","x","c","o","n","n"," ","U","n","i","t"," ","3">>>>,
     !.certification = <<<<"G","O","T","S">>>>,
     !.tier = <<<<"T","i","e","r"," ","1">>>>,
     !.relation_text = <<<<"s","h","i","p","s"," ","t","o"," "," ",".">>>>]

\* a record without a subject
FormNoSubject ==
    [NoFields EXCEPT !.certification = <<<<"G","O","T","S">>>>,
     !.tier = <<<<"T","i","e","r"," ","3">>>>,
     !.risk_score = << <<9, 10>> >>,
     !.relation_text = <<<<"S","u","p","p","l","i","e","s"," ","1","0","0","%"," ","c","o","t","t","o","n"," ","y","a","r","n"," ","t","o"," ","S","u","n","r","i","s","e"," ","T","e","x","t","i","l","e","s">>>>]

\* a subject of spaces and a target of one letter
FormBlank ==
    [NoFields EXCEPT !.facility_name = <<<<" "," ">>>>,
     !.region = <<<<"I","n","d","i","a">>>>,
     !.dependency_weight = << <<1, 2>> >>,
     !.relation_text = <<<<"d","e","l","i","v","e","r","s"," "," ","f","o","r"," ","x">>>>]

RawRecords == {FormFoxconn, ExcelFxncn, ExcelBrandA, PdfSunrise, PdfFoxconn, FormZeroes, FormGots, FormNoSubject, FormBlank}

\* the most edges of a graph given to simple_risk_propagation
MaxEdges == 3

\* the most edges of a graph given to the simulation, other than a chain
MaxSimEdges == 2

\* the most edges of a chain given to the simulation
MaxChain == 4

\* the number of edges of the chains given to the propagation
MaxRiskChain == 6

\* the iteration counts given to the simulation: -MaxBelowZero..MaxIterations
MaxBelowZero == 1

MaxIterations == 2

NODE_A == <<"A">>

NODE_B == <<"B">>

\* node attributes: A has the risk of data_simulator.py line 27 and no
\* buffer, B has no dependency_weight, the sink has no risk_score
RiskyAttributes ==
    (NODE_A :> [risk_score |-> <<4, 5>>, dependency_weight |-> <<1, 1>>, inventory_buffer |-> 0])
    @@ (NODE_B :> [risk_score |-> <<3, 10>>, inventory_buffer |-> 3])
    @@ (BRAND_A_DISTRIBUTION_CENTER :> [dependency_weight |-> <<2, 1>>, inventory_buffer |-> 6])

\* node attributes: a risk below 0, a risk above 1, a risk of 0.9, a
\* dependency_weight below 0 and no inventory_buffer
OddAttributes ==
    (NODE_A :> [risk_score |-> <<-1, 2>>, dependency_weight |-> <<1, 1>>, inventory_buffer |-> 3])
    @@ (NODE_B :> [risk_score |-> <<3, 2>>, dependency_weight |-> <<1, 5>>, inventory_buffer |-> 3])
    @@ (BRAND_A_DISTRIBUTION_CENTER :> [risk_score |-> <<9, 10>>, dependency_weight |-> <<-1, 1>>])

AttributeSets == {RiskyAttributes, OddAttributes}

NodeLists == {<<>>, <<NODE_A>>, <<NODE_A, NODE_B>>, <<NODE_A, NODE_B, BRAND_A_DISTRIBUTION_CENTER>>}

\* the sequences of up to n elements of S
SeqsUpTo(S, n) == UNION {[1..k -> S] : k \in 0..n}

\* G.add_node(n, **attributes[n]) for the nodes from place i on
RECURSIVE AddNodes(_, _, _, _)
AddNodes(g, nodes, attributes, i) ==
    IF i > Len(nodes) THEN g
    ELSE AddNodes(add_node(g, nodes[i], attributes[nodes[i]]), nodes, attributes, i + 1)

\* G.add_edge(u, v, relation=, material=, weight=1.0) for the pairs from place i on
RECURSIVE AddEdges(_, _, _)
AddEdges(g, pairs, i) ==
    IF i > Len(pairs) THEN g
    ELSE AddEdges(add_edge(g, pairs[i][1], pairs[i][2], RELATION_MAP[1][2], UNKNOWN_MATERIAL, <<1, 1>>),
                  pairs, i + 1)

GraphOf(nodes, attributes, pairs) ==
    AddEdges(AddNodes(EmptyGraph, nodes, attributes, 1), pairs, 1)

\* every graph on the nodes given with up to n edges
GraphsOn(nodes, n) ==
    {GraphOf(nodes, attributes, pairs) :
        attributes \in AttributeSets,
        pairs \in SeqsUpTo(Range(nodes) \X Range(nodes), n)}

\* every graph on a list of NodeLists with up to n edges, loops and parallel
\* edges included, in every order of adding the edges
GraphsUpTo(n) == UNION {GraphsOn(nodes, n) : nodes \in NodeLists}

\* node i of a chain
ChainNode(i) == <<"n", Ascii[Ord("0") + i]>>

\* the chain n0 -> n1 -> ... -> nk whose nodes were added in the order given
ChainOf(order) ==
    GraphOf([i \in DOMAIN order |-> ChainNode(order[i])],
            [n \in {ChainNode(i) : i \in Range(order)} |-> _initialize_node_attributes(0, n)],
            [i \in 1..(Len(order) - 1) |-> <<ChainNode(i - 1), ChainNode(i)>>])

\* the chains of 1..MaxChain edges, their nodes added in every order, so that
\* the edges are yielded in every order
Chains == {ChainOf(order) : order \in UNION {ListsOf(0..k) : k \in 1..MaxChain}}

\* the orders in which the elements of a set can be listed
RECURSIVE Orders(_)
Orders(S) ==
    IF S = {} THEN {<<>>}
    ELSE UNION {{<<x>> \o q : q \in Orders(S \ {x})} : x \in S}

\* the attributes of the chain given to the propagation: only n0 is at risk,
\* and every edge carries half of the risk of its source
RiskChainAttributes(i) ==
    [risk_score |-> IF i = 0 THEN <<1, 1>> ELSE <<0, 1>>,
     dependency_weight |-> <<1, 1>>,
     inventory_buffer |-> 3]

\* the chain n0 -> n1 -> ... -> nk with these attributes, its nodes added in
\* the order given
RiskChainOf(order) ==
    GraphOf([i \in DOMAIN order |-> ChainNode(order[i])],
            [n \in {ChainNode(i) : i \in Range(order)} |->
                RiskChainAttributes(CHOOSE i \in Range(order) : ChainNode(i) = n)],
            [i \in 1..(Len(order) - 1) |-> <<ChainNode(i - 1), ChainNode(i)>>])

\* the chains of MaxRiskChain edges, their nodes added in every order, so
\* that the edges are yielded in every order
RiskChains == {RiskChainOf(order) : order \in Orders(0..MaxRiskChain)}

\* the attribute dictionaries calculate_edge_weight is given
DependencyWeights == {<<-1, 2>>, <<0, 1>>, <<1, 20>>, <<1, 10>>, <<7, 10>>, <<1, 1>>, <<3, 2>>, <<20, 1>>}

InventoryBuffers == {-3, -1, 0, 1, 2, 3, 6}

NodeAttributes ==
    {RiskyAttributes[n] : n \in DOMAIN RiskyAttributes}
    \cup {[risk_score |-> <<4, 5>>]}
    \cup {[dependency_weight |-> w] : w \in DependencyWeights}
    \cup {[inventory_buffer |-> b] : b \in InventoryBuffers}
    \cup {[dependency_weight |-> w, inventory_buffer |-> b] :
             w \in DependencyWeights, b \in InventoryBuffers}


\* ------------------------------------------------------------------------
\* The state machine
\* ------------------------------------------------------------------------

VARIABLES
    pc,                  \* where the call in progress stands
    raw_name,            \* resolve_entity: the argument
    resolved,            \* resolve_entity: the value returned
    raw_data,            \* build_graph: the items of raw_data processed so far
    G,                   \* the graph
    facility_nodes,      \* build_graph: the id of each canonical name
    node_attributes,     \* calculate_edge_weight: the argument
    final_risk,          \* simple_risk_propagation: final_risk
    passes,              \* the passes over the edges made so far
    iterations,          \* the simulation: the argument
    failure_prob_local,  \* the simulation: failure_prob_local
    disruption_count,    \* the simulation: disruption_count
    trials,              \* the simulation: the trials made so far
    is_failed,           \* the simulation: is_failed
    local_draw,          \* the simulation: is_failed as the trial drew it
    returned             \* the value the call returned

vars == <<pc, raw_name, resolved, raw_data, G, facility_nodes, node_attributes,
          final_risk, passes, iterations, failure_prob_local, disruption_count,
          trials, is_failed, local_draw, returned>>

assembly_vars == <<raw_name, resolved, raw_data, facility_nodes>>

risk_vars == <<node_attributes, final_risk>>

simulation_vars == <<iterations, failure_prob_local, disruption_count, trials, is_failed, local_draw>>

NoAssembly == raw_name = <<>> /\ resolved = <<>> /\ raw_data = <<>> /\ facility_nodes = <<>>

NoRisk == node_attributes = <<>> /\ final_risk = <<>>

NoSimulation ==
    /\ iterations = 0
    /\ failure_prob_local = <<>>
    /\ disruption_count = <<>>
    /\ trials = 0
    /\ is_failed = <<>>
    /\ local_draw = <<>>

\* a call of resolve_entity(raw_name)
InitResolve ==
    /\ pc = "resolve"
    /\ raw_name \in RawNames
    /\ resolved = <<>>
    /\ raw_data = <<>>
    /\ G = EmptyGraph
    /\ facility_nodes = <<>>
    /\ NoRisk /\ NoSimulation /\ passes = 0 /\ returned = <<>>

\* a call of build_graph: G = nx.MultiDiGraph(), facility_nodes = {}
InitBuild ==
    /\ pc = "build"
    /\ NoAssembly
    /\ G = EmptyGraph
    /\ NoRisk /\ NoSimulation /\ passes = 0 /\ returned = <<>>

\* resolve_entity returns
Resolve ==
    /\ pc = "resolve"
    /\ resolved' = resolve_entity(raw_name)
    /\ pc' = "resolved"
    /\ UNCHANGED <<raw_name, raw_data, G, facility_nodes, risk_vars, simulation_vars, passes, returned>>

\* one iteration of the for loop of build_graph
BuildItem ==
    /\ pc = "build"
    /\ Len(raw_data) < MaxRecords
    /\ \E item \in RawRecords :
       \E st \in {ProcessItem([G |-> G, facility_nodes |-> facility_nodes], item)} :
          /\ raw_data' = Append(raw_data, item)
          /\ G' = st.G
          /\ facility_nodes' = st.facility_nodes
    /\ UNCHANGED <<pc, raw_name, resolved, risk_vars, simulation_vars, passes, returned>>

\* the final loop of build_graph: each set of certifications becomes a list,
\* in the order the set iterates, which is any order
BuildReturn ==
    /\ pc = "build"
    /\ \E lists \in [DOMAIN G.data ->
                       UNION {ListsOf(G.data[n].certifications) : n \in DOMAIN G.data}] :
          /\ \A n \in DOMAIN G.data : lists[n] \in ListsOf(G.data[n].certifications)
          /\ G' = [G EXCEPT !.data =
                      [n \in DOMAIN G.data |->
                          [G.data[n] EXCEPT !.certifications = lists[n]]]]
    /\ pc' = "built"
    /\ UNCHANGED <<raw_name, resolved, raw_data, facility_nodes, risk_vars, simulation_vars, passes, returned>>

InitAssembly == InitResolve \/ InitBuild

NextAssembly == Resolve \/ BuildItem \/ BuildReturn

\* entity resolution and graph assembly
SpecAssembly == InitAssembly /\ [][NextAssembly]_vars

\* a call of calculate_edge_weight(node_attributes)
InitWeigh ==
    /\ pc = "weigh"
    /\ node_attributes \in NodeAttributes
    /\ G = EmptyGraph
    /\ final_risk = <<>>
    /\ NoAssembly /\ NoSimulation /\ passes = 0 /\ returned = <<>>

\* a call of simple_risk_propagation(G)
InitPropagate ==
    /\ pc = "propagate"
    /\ G \in GraphsUpTo(MaxEdges) \cup RiskChains
    /\ NoRisk
    /\ NoAssembly /\ NoSimulation /\ passes = 0 /\ returned = <<>>

\* calculate_edge_weight returns
Weigh ==
    /\ pc = "weigh"
    /\ returned' = calculate_edge_weight(node_attributes)
    /\ pc' = "weighed"
    /\ UNCHANGED <<G, assembly_vars, risk_vars, simulation_vars, passes>>

\* simple_risk_propagation, step 1: the risk scores are copied
InitializeRisk ==
    /\ pc = "propagate"
    /\ final_risk' = InitialRisk(G)
    /\ pc' = "relax"
    /\ UNCHANGED <<G, assembly_vars, node_attributes, simulation_vars, passes, returned>>

\* simple_risk_propagation, step 2: one pass of the outer loop
Relax ==
    /\ pc = "relax"
    /\ passes < RELAXATION_PASSES
    /\ final_risk' = RelaxPass(G, final_risk)
    /\ passes' = passes + 1
    /\ UNCHANGED <<pc, G, assembly_vars, node_attributes, simulation_vars, returned>>

\* simple_risk_propagation returns final_risk
PropagateReturn ==
    /\ pc = "relax"
    /\ passes = RELAXATION_PASSES
    /\ returned' = final_risk
    /\ pc' = "propagated"
    /\ UNCHANGED <<G, assembly_vars, risk_vars, simulation_vars, passes>>

InitRisk == InitWeigh \/ InitPropagate

NextRisk == Weigh \/ InitializeRisk \/ Relax \/ PropagateReturn

\* the edge weight and the deterministic propagation
SpecRisk == InitRisk /\ [][NextRisk]_vars

\* a call of monte_carlo_disruption_simulation(G, iterations)
InitSimulate ==
    /\ pc = "simulate"
    /\ G \in GraphsUpTo(MaxSimEdges) \cup Chains
    /\ iterations \in (-MaxBelowZero)..MaxIterations
    /\ failure_prob_local = <<>>
    /\ disruption_count = <<>>
    /\ trials = 0
    /\ is_failed = <<>>
    /\ local_draw = <<>>
    /\ NoAssembly /\ NoRisk /\ passes = 0 /\ returned = <<>>

\* step 1 and the start of step 2: failure_prob_local and disruption_count
LocalFailure ==
    /\ pc = "simulate"
    /\ failure_prob_local' = LocalProbabilities(G)
    /\ disruption_count' = [n \in DOMAIN G.data |-> 0]
    /\ pc' = "trial"
    /\ UNCHANGED <<G, assembly_vars, risk_vars, iterations, trials, is_failed, local_draw, passes, returned>>

\* part A of a trial: random.random() < failure_prob_local[node] for each
\* node; every probability is above 0 and below 1, so any set of nodes may fail
Draw ==
    /\ pc = "trial"
    /\ trials < iterations
    /\ \E failed \in SUBSET DOMAIN G.data :
          /\ is_failed' = [n \in DOMAIN G.data |-> n \in failed]
          /\ local_draw' = [n \in DOMAIN G.data |-> n \in failed]
    /\ passes' = 0
    /\ pc' = "cascade"
    /\ UNCHANGED <<G, assembly_vars, risk_vars, iterations, failure_prob_local, disruption_count, trials, returned>>

\* part B of a trial: one pass of the cascade
Cascade ==
    /\ pc = "cascade"
    /\ passes < CASCADE_PASSES
    /\ is_failed' = CascadePass(G, is_failed)
    /\ passes' = passes + 1
    /\ UNCHANGED <<pc, G, assembly_vars, risk_vars, iterations, failure_prob_local, disruption_count, trials, local_draw, returned>>

\* part C of a trial: the failed nodes are counted
CountTrial ==
    /\ pc = "cascade"
    /\ passes = CASCADE_PASSES
    /\ disruption_count' = CountFailed(disruption_count, is_failed)
    /\ trials' = trials + 1
    /\ pc' = "trial"
    /\ UNCHANGED <<G, assembly_vars, risk_vars, iterations, failure_prob_local, is_failed, local_draw, passes, returned>>

\* step 3 once range(iterations) is used up: the result is returned, or the
\* division raises
SimulateReturn ==
    /\ pc = "trial"
    /\ trials >= iterations
    /\ IF Raises(iterations, disruption_count)
       THEN pc' = "raised" /\ returned' = "ZeroDivisionError"
       ELSE pc' = "returned"
            /\ returned' = SimulationResult(G, iterations, failure_prob_local,
                                            Probabilities(disruption_count, iterations))
    /\ UNCHANGED <<G, assembly_vars, risk_vars, simulation_vars, passes>>

InitSimulation == InitSimulate

NextSimulation == LocalFailure \/ Draw \/ Cascade \/ CountTrial \/ SimulateReturn

\* the Monte Carlo simulation
SpecSimulation == InitSimulation /\ [][NextSimulation]_vars

\* ------------------------------------------------------------------------
\* Properties of entity resolution and graph assembly
\* ------------------------------------------------------------------------

\* the canonical name of the subject of an item: <<name>>, or <<>> without one
SubjectOf(item) ==
    IF Truthy(Or(item.facility_name, item.facility_key))
    THEN <<resolve_entity(Or(item.facility_name, item.facility_key)[1])>>
    ELSE <<>>

\* the node the relation of an item points to: <<name>>, or <<>> without one
TargetOfRelation(relation_result) ==
    IF relation_result = <<>> THEN <<>> ELSE <<resolve_entity(relation_result[2])>>

TargetOf(item) ==
    IF Truthy(item.relation_text)
    THEN TargetOfRelation(extract_relations(item.relation_text[1]))
    ELSE <<>>

\* resolve_entity of an optional string that is not empty, else None
Resolved(x) == IF Truthy(x) THEN <<resolve_entity(x[1])>> ELSE NONE

\* the value a table of pairs <<key, value>> has for a key
Lookup(table, k) == (CHOOSE p \in table : p[1] = k)[2]

\* what resolve_entity and extract_relations make of the items processed so
\* far, by position
Subjects == {<<i, SubjectOf(raw_data[i])>> : i \in DOMAIN raw_data}

Targets == {<<i, TargetOf(raw_data[i])>> : i \in DOMAIN raw_data}

Certifications == {<<i, Resolved(Or(raw_data[i].certification, NONE))>> : i \in DOMAIN raw_data}

Regions == {<<i, Resolved(Or(raw_data[i].region, NONE))>> : i \in DOMAIN raw_data}

\* the certifications of a node as a set, during and after assembly
CertificationSet(n) ==
    IF pc = "built" THEN Range(G.data[n].certifications) ELSE G.data[n].certifications

\* the last value of field f among the items at the positions idx
LastAt(idx, f, default) == IF idx = {} THEN default ELSE raw_data[Max(idx)][f]

\* the positions of the items whose subject is n
ItemsOf(subjects, n) == {i \in DOMAIN raw_data : Lookup(subjects, i) = <<n>>}

\* the last non-null field f of the items at the positions idx
LastNonNull(idx, f, default) == LastAt({i \in idx : raw_data[i][f] # NONE}, f, default)

\* the last non-empty string field f of the items at the positions idx
LastNonEmpty(idx, f, default) == LastAt({i \in idx : Truthy(raw_data[i][f])}, f, default)

\* resolve_entity of the last non-empty region of the items at the positions idx
LastRegion(regions, idx) ==
    IF \E i \in idx : Truthy(raw_data[i].region)
    THEN Lookup(regions, Max({i \in idx : Truthy(raw_data[i].region)}))
    ELSE NONE

\* C4: resolve_entity(c) = c for every canonical name c of the alias table.
ResolveIsIdempotentOnCanonicalNames ==
    (pc = "resolved" /\ raw_name \in canonical_names) => resolved = raw_name

\* a canonical name that an alias entry returns was resolved
CanonicalNameResolved ==
    /\ pc = "resolved"
    /\ raw_name = SUNRISE_TEXTILES
    /\ AliasLoop(raw_name, _preprocess_name(raw_name)) # <<>>

\* C5: resolve_entity returns a string that is not empty and has no space at
\* either end, and no node of the graph has an empty name.
NamesAreNeverEmpty ==
    /\ pc = "resolved" =>
          /\ resolved # <<>>
          /\ ~IsSpace(resolved[1])
          /\ ~IsSpace(resolved[Len(resolved)])
    /\ \A n \in DOMAIN G.data : n # <<>> /\ G.data[n].name # <<>>
    /\ \A i \in DOMAIN G.edges : G.edges[i].u # <<>> /\ G.edges[i].v # <<>>

\* a name of punctuation and spaces only was resolved
BlankNameResolved ==
    /\ pc = "resolved"
    /\ raw_name # <<>>
    /\ _preprocess_name(raw_name) = <<>>

\* the certifications the items at the positions idx supply, resolved
SuppliedCertifications(certifications, idx) ==
    {Lookup(certifications, i)[1] :
        i \in {j \in idx : Truthy(raw_data[j].certification)}}

UnionOfSupplied(subjects, certifications) ==
    \A n \in DOMAIN G.data :
        CertificationSet(n) = SuppliedCertifications(certifications, ItemsOf(subjects, n))

\* C6: the certifications of each entity are the union of the resolved
\* certifications of the items whose subject resolves to it, whatever the
\* order of the items.
CertificationsAreTheUnion ==
    \A subjects \in {Subjects}, certifications \in {Certifications} :
        UnionOfSupplied(subjects, certifications)

\* an entity was given two certifications
TwoCertificationsMerged ==
    /\ pc = "built"
    /\ \E n \in DOMAIN G.data : Len(G.data[n].certifications) >= 2

\* the scalar attributes of node n
ScalarsOf(n) ==
    <<G.data[n].tier, G.data[n].region, <<G.data[n].risk_score>>,
      <<G.data[n].dependency_weight>>, <<G.data[n].inventory_buffer>>>>

\* for each attribute, the last value of the items idx that is not null, or
\* the default
LastNonNullScalars(idx) ==
    <<LastNonNull(idx, "tier", NONE),
      LastNonNull(idx, "region", NONE),
      LastNonNull(idx, "risk_score", << <<0, 1>> >>),
      LastNonNull(idx, "dependency_weight", << <<1, 1>> >>),
      LastNonNull(idx, "buffer", <<0>>)>>

LastNonNullOf(subjects) ==
    \A n \in DOMAIN G.data : ScalarsOf(n) = LastNonNullScalars(ItemsOf(subjects, n))

\* C7 as stated: each scalar attribute is the value of the last item of the
\* entity that supplied a value that is not null, or the default.
ScalarsAreLastNonNull == \A subjects \in {Subjects} : LastNonNullOf(subjects)

\* the same, with the tier and the region as the code merges them
LastSuppliedScalars(regions, idx) ==
    <<LastNonEmpty(idx, "tier", NONE),
      LastRegion(regions, idx),
      LastNonNull(idx, "risk_score", << <<0, 1>> >>),
      LastNonNull(idx, "dependency_weight", << <<1, 1>> >>),
      LastNonNull(idx, "buffer", <<0>>)>>

LastSuppliedOf(subjects, regions) ==
    \A n \in DOMAIN G.data :
        ScalarsOf(n) = LastSuppliedScalars(regions, ItemsOf(subjects, n))

\* C7 as amended: the tier is the last tier that is not empty, the region is
\* resolve_entity of the last region that is not empty, and risk_score,
\* dependency_weight and inventory_buffer are the last risk_score,
\* dependency_weight and buffer that are not null (0 and 0.0 included).
ScalarsAreLastSupplied ==
    \A subjects \in {Subjects}, regions \in {Regions} : LastSuppliedOf(subjects, regions)

\* an item with a risk_score of 0.0 and without a tier and a region came
\* after an item of the same entity that had them
ZeroAfterValue ==
    /\ Len(raw_data) = 3
    /\ raw_data[1] = FormFoxconn
    /\ raw_data[2] = PdfFoxconn
    /\ raw_data[3] = FormZeroes

\* the number of edges u -> v of the graph
EdgeCount(u, v) == Cardinality({i \in DOMAIN G.edges : G.edges[i].u = u /\ G.edges[i].v = v})

\* the number of items with subject u whose text has a relation to v
RelationCount(subjects, targets, u, v) ==
    Cardinality({i \in DOMAIN raw_data :
                    Lookup(subjects, i) = <<u>> /\ Lookup(targets, i) = <<v>>})

\* the items that have a subject and whose text has a relation
RelationItems(subjects, targets) ==
    {i \in DOMAIN raw_data : Lookup(subjects, i) # <<>> /\ Lookup(targets, i) # <<>>}

EdgesMatch(subjects, targets) ==
    /\ Len(G.edges) = Cardinality(RelationItems(subjects, targets))
    /\ \A u, v \in DOMAIN G.data : EdgeCount(u, v) = RelationCount(subjects, targets, u, v)

EdgesMatchItems ==
    \A subjects \in {Subjects}, targets \in {Targets} : EdgesMatch(subjects, targets)

\* a step of assembly keeps every node and every edge
NothingRemoved ==
    /\ DOMAIN G.data \subseteq DOMAIN G'.data
    /\ Len(G.edges) <= Len(G'.edges)
    /\ SubSeq(G'.edges, 1, Len(G.edges)) = G.edges
    /\ SubSeq(G'.order, 1, Len(G.order)) = G.order

\* C8: every item that has a subject and whose text has a relation adds one
\* edge subject -> target, parallel edges included, and no step of assembly
\* removes a node or an edge.
EdgesAreNeverDeduplicated == [](EdgesMatchItems) /\ [][NothingRemoved]_vars

\* the same item was given twice and made two parallel edges
ParallelEdgesBuilt ==
    /\ Len(raw_data) >= 2
    /\ raw_data[1] = raw_data[2]
    /\ \E i, j \in DOMAIN G.edges :
          i # j /\ G.edges[i].u = G.edges[j].u /\ G.edges[i].v = G.edges[j].v

\* ------------------------------------------------------------------------
\* Properties of the edge weight, the propagation and the simulation
\* ------------------------------------------------------------------------

\* the graph of the single edge A -> B, A with risk_score 0.8,
\* dependency_weight 1.0 and inventory_buffer 0, B with risk_score 0.3
ScenarioGraph == GraphOf(<<NODE_A, NODE_B>>, RiskyAttributes, <<<<NODE_A, NODE_B>>>>)

\* C1 as stated: calculate_edge_weight(A) is 0.792 and the propagation
\* returns risk[B] = 0.6336.
ScenarioAsStated ==
    /\ (pc = "weighed" /\ node_attributes = RiskyAttributes[NODE_A]) => returned = <<99, 125>>
    /\ (pc = "propagated" /\ G = ScenarioGraph) =>
          /\ calculate_edge_weight(G.data[NODE_A]) = <<99, 125>>
          /\ returned[NODE_B] = <<396, 625>>

\* C1 as amended: calculate_edge_weight(A) is 1.0 * (1 - 0 - 0.1 * 0.1) = 0.99
\* and the propagation returns risk[B] = max(0.3, 0.8 * 0.99) = 0.792.
ScenarioAsComputed ==
    /\ (pc = "weighed" /\ node_attributes = RiskyAttributes[NODE_A]) => returned = <<99, 100>>
    /\ (pc = "propagated" /\ G = ScenarioGraph) =>
          /\ calculate_edge_weight(G.data[NODE_A]) = <<99, 100>>
          /\ returned[NODE_B] = <<99, 125>>

\* the propagation returned for the scenario graph, the risk of B raised
ScenarioPropagated ==
    /\ pc = "propagated"
    /\ G = ScenarioGraph
    /\ Less(InitialRisk(G)[NODE_B], returned[NODE_B])

\* the targets of the edges that leave node n
Successors(g, n) == {g.edges[i].v : i \in {j \in DOMAIN g.edges : g.edges[j].u = n}}

\* the nodes reachable from the nodes S, these included
RECURSIVE ReachableFrom(_, _)
ReachableFrom(g, S) ==
    IF UNION {Successors(g, n) : n \in S} \subseteq S THEN S
    ELSE ReachableFrom(g, S \cup UNION {Successors(g, n) : n \in S})

\* the number of edges of the longest path that starts at n and passes no
\* node twice, nor a node of visited
RECURSIVE LongestPath(_, _, _)
LongestPath(g, n, visited) ==
    IF Successors(g, n) \subseteq visited THEN 0
    ELSE 1 + Max({LongestPath(g, m, visited \cup {m}) : m \in Successors(g, n) \ visited})

\* the nodes that failed in the local draw of the trial
Seeds == {n \in DOMAIN local_draw : local_draw[n]}

\* C2: when a trial whose local draw failed exactly one node, the seed, has
\* made its cascade passes, and no path from the seed is longer than 3
\* edges, the failed nodes are the nodes reachable from the seed, whatever
\* the order in which the edges are yielded.
OneSeedCascades ==
    (pc = "trial" /\ trials > 0 /\ Cardinality(Seeds) = 1) =>
        \A seed \in Seeds :
            LongestPath(G, seed, {seed}) <= 3 =>
                \A n \in DOMAIN G.data : is_failed[n] <=> n \in ReachableFrom(G, {seed})

\* the chain of 3 edges whose edges are yielded last edge first, its first
\* node the seed, has cascaded to its last node
ReversedChainCascaded ==
    /\ pc = "trial"
    /\ trials > 0
    /\ G = ChainOf(<<3, 2, 1, 0>>)
    /\ EdgeView(G)[1].u = ChainNode(2)
    /\ Seeds = {ChainNode(0)}
    /\ is_failed[ChainNode(3)]

\* C3 as stated: a call with iterations <= 0 does not return a result.
NonPositiveIterationsRejected == ~(pc = "returned" /\ iterations <= 0)

\* C9: the risk the propagation holds for a node, after every pass and when
\* it returns, is at least the risk_score of the node.
RiskIsNeverLowered ==
    /\ pc = "relax" => \A v \in DOMAIN G.data : AtMost(InitialRisk(G)[v], final_risk[v])
    /\ pc = "propagated" => \A v \in DOMAIN G.data : AtMost(InitialRisk(G)[v], returned[v])

\* the risk an edge of the graph transfers from what the propagation returned
Transferred(i) == Mul(returned[G.edges[i].u], calculate_edge_weight(G.data[G.edges[i].u]))

\* the propagation returned for a graph with a cycle, where it raised the
\* risk of a node and an edge transfers less than its target holds
RaisedAndKept ==
    /\ pc = "propagated"
    /\ \E i, j \in DOMAIN G.edges :
          i # j /\ G.edges[i].u = G.edges[j].v /\ G.edges[i].v = G.edges[j].u
    /\ \E v \in DOMAIN G.data : Less(InitialRisk(G)[v], returned[v])
    /\ \E i \in DOMAIN G.edges : Less(Transferred(i), returned[G.edges[i].v])

\* C10: calculate_edge_weight returns a weight w with 0.1 <= w <= 1.0.
WeightIsWithinBounds ==
    pc = "weighed" => AtMost(<<1, 10>>, returned) /\ AtMost(returned, <<1, 1>>)

\* a weight was returned for attributes whose computed weight is above 1.0,
\* with a dependency_weight above 1 and a buffer below 0
WeightAboveOneClamped ==
    /\ pc = "weighed"
    /\ "dependency_weight" \in DOMAIN node_attributes
    /\ "inventory_buffer" \in DOMAIN node_attributes
    /\ Less(<<1, 1>>, node_attributes.dependency_weight)
    /\ node_attributes.inventory_buffer < 0
    /\ Less(<<1, 1>>, PropagationWeight(Dependency(node_attributes), BufferMonths(node_attributes)))

\* the nodes with an edge into a node of S
Upstream(g, S) == {g.edges[i].u : i \in {j \in DOMAIN g.edges : g.edges[j].v \in S}}

\* the nodes from which a path of 1..k edges leads into a node of S
RECURSIVE WithinHops(_, _, _)
WithinHops(g, S, k) ==
    IF k = 0 THEN {}
    ELSE Upstream(g, S) \cup WithinHops(g, Upstream(g, S), k - 1)

\* the risks after k passes that each carry risk over one edge only: the
\* highest risk carried to each node over a path of at most k edges
RECURSIVE OverPaths(_, _, _)
OverPaths(g, risk, k) ==
    IF k = 0 THEN risk ELSE OverPaths(g, RelaxPassFromCopy(g, risk), k - 1)

\* the graph is the chain n0 -> ... -> n<MaxRiskChain> given to the propagation
IsRiskChain == DOMAIN G.data = {ChainNode(i) : i \in 0..MaxRiskChain}

\* the place of the edge into ni in the enumeration of the edges of the chain
PlaceInto(view, i) == CHOOSE k \in DOMAIN view : view[k].v = ChainNode(i)

\* the edges of the chain are yielded from n0 on
UpstreamFirst(view, k) ==
    \A i, j \in 1..k : i < j => PlaceInto(view, i) < PlaceInto(view, j)

\* the edges of the chain are yielded from the last edge back
DownstreamFirst(view, k) ==
    \A i, j \in 1..k : i < j => PlaceInto(view, i) > PlaceInto(view, j)

\* 1 / 2^i, the risk of n0 carried over i edges of the chain
RECURSIVE Halved(_)
Halved(i) == IF i = 0 THEN <<1, 1>> ELSE Mul(Halved(i - 1), <<1, 2>>)

\* C11 as stated: the returned risk of a node is never raised by the
\* risk_score of a node more than 5 edges upstream, so a node without risk
\* whose upstream nodes within 5 edges are all without risk is returned
\* without risk, whatever the order in which the edges are yielded.
NoRiskBeyondFiveHops ==
    pc = "propagated" =>
        \A v \in DOMAIN G.data :
            (/\ InitialRisk(G)[v] = <<0, 1>>
             /\ \A u \in WithinHops(G, {v}, RELAXATION_PASSES) : InitialRisk(G)[u] = <<0, 1>>)
            => returned[v] = <<0, 1>>

\* C11 as the code has it: the returned risk of a node is at least the risk
\* carried to it over every path of at most 5 edges; whether risk is carried
\* over more than 5 edges depends on the order in which the edges are
\* yielded: on the chain, yielded from the last edge back the nodes more than
\* 5 edges from n0 stay at 0, yielded from n0 on every node ni is returned
\* the risk of n0 carried over i edges.
FiveHopsAreCaptured ==
    pc = "propagated" =>
        \A view \in {EdgeView(G)} :
            /\ \A within \in {OverPaths(G, InitialRisk(G), RELAXATION_PASSES)} :
                  \A v \in DOMAIN G.data : AtMost(within[v], returned[v])
            /\ IsRiskChain /\ DownstreamFirst(view, MaxRiskChain) =>
                  \A i \in 0..MaxRiskChain :
                      returned[ChainNode(i)] =
                          IF i > RELAXATION_PASSES THEN <<0, 1>> ELSE Halved(i)
            /\ IsRiskChain /\ UpstreamFirst(view, MaxRiskChain) =>
                  \A i \in 0..MaxRiskChain : returned[ChainNode(i)] = Halved(i)

\* the propagation returned for the chain of more than 5 edges yielded from
\* n0 on, and the last node holds risk
RiskCarriedBeyondFiveHops ==
    /\ pc = "propagated"
    /\ IsRiskChain
    /\ MaxRiskChain > RELAXATION_PASSES
    /\ UpstreamFirst(EdgeView(G), MaxRiskChain)
    /\ Less(<<0, 1>>, returned[ChainNode(MaxRiskChain)])

\* the nodes a path of 1..k edges leads to from a node of S
RECURSIVE DownstreamWithin(_, _, _)
DownstreamWithin(g, S, k) ==
    IF k = 0 THEN {}
    ELSE UNION {Successors(g, n) : n \in S}
         \cup DownstreamWithin(g, UNION {Successors(g, n) : n \in S}, k - 1)

\* the nodes marked failed
Failed == {n \in DOMAIN is_failed : is_failed[n]}

\* the graph is the chain n0 -> ... -> n<MaxChain> given to the simulation
IsChain == DOMAIN G.data = {ChainNode(i) : i \in 0..MaxChain}

\* C12 as stated: a node ends a trial marked failed only if it failed in its
\* own local draw or lies at most 3 edges downstream of a node that failed in
\* its local draw, whatever the order in which the edges are yielded.
CascadeStopsAfterThreeHops ==
    (pc = "trial" /\ trials > 0) =>
        Failed \subseteq Seeds \cup DownstreamWithin(G, Seeds, CASCADE_PASSES)

\* C12 as the code has it: a node ends a trial marked failed only if it
\* failed in its local draw or lies downstream of a node that did, and every
\* node at most 3 edges downstream of such a node ends the trial failed;
\* whether a node further downstream fails depends on the order in which the
\* edges are yielded: on the chain with n0 the only local failure, yielded
\* from the last edge back the nodes more than 3 edges from n0 do not fail,
\* yielded from n0 on every node fails.
ThreeHopsAlwaysCascade ==
    (pc = "trial" /\ trials > 0) =>
        \A view \in {EdgeView(G)} :
            /\ Failed \subseteq ReachableFrom(G, Seeds)
            /\ Seeds \cup DownstreamWithin(G, Seeds, CASCADE_PASSES) \subseteq Failed
            /\ IsChain /\ Seeds = {ChainNode(0)} /\ DownstreamFirst(view, MaxChain) =>
                  Failed = {ChainNode(i) : i \in 0..Min({MaxChain, CASCADE_PASSES})}
            /\ IsChain /\ Seeds = {ChainNode(0)} /\ UpstreamFirst(view, MaxChain) =>
                  Failed = DOMAIN G.data

\* a trial on the chain of more than 3 edges yielded from n0 on, whose local
\* draw failed n0 only, ended with the last node failed
FailureCarriedBeyondThreeHops ==
    /\ pc = "trial"
    /\ trials > 0
    /\ IsChain
    /\ MaxChain > CASCADE_PASSES
    /\ UpstreamFirst(EdgeView(G), MaxChain)
    /\ Seeds = {ChainNode(0)}
    /\ is_failed[ChainNode(MaxChain)]

\* a sequence with x at its end, unless it holds x already
Sight(seen, x) == IF x \in Range(seen) THEN seen ELSE Append(seen, x)

\* the sequence with the names item i brings: its subject, then the target
\* of its relation; an item without a subject is passed over
SightItem(seen, subject, target) ==
    IF subject = <<>> THEN seen
    ELSE IF target = <<>> THEN Sight(seen, subject[1])
    ELSE Sight(Sight(seen, subject[1]), target[1])

\* the distinct canonical names of the first n items, in the order of their
\* first sighting
RECURSIVE Sighted(_, _, _)
Sighted(subjects, targets, n) ==
    IF n = 0 THEN <<>>
    ELSE SightItem(Sighted(subjects, targets, n - 1), Lookup(subjects, n), Lookup(targets, n))

\* C13: after every prefix of the records the nodes of the graph are the
\* distinct canonical names seen so far as a subject or as the target of a
\* relation, one node each, in the order of their first sighting; the node
\* sighted i-th has the id i, in the id table and as fac_<i> in its
\* attributes, so that the ids are distinct and are 1..N; and both ends of
\* every edge are nodes of the graph.
NodeIdentity ==
    pc \in {"build", "built"} =>
        \A subjects \in {Subjects}, targets \in {Targets} :
        \A seen \in {Sighted(subjects, targets, Len(raw_data))} :
            /\ G.order = seen
            /\ DOMAIN G.data = Range(seen)
            /\ DOMAIN facility_nodes = Range(seen)
            /\ \A i \in DOMAIN seen :
                  /\ facility_nodes[seen[i]] = i
                  /\ G.data[seen[i]].id = <<"f", "a", "c", "_">> \o Decimal(i)
                  /\ G.data[seen[i]].name = seen[i]
            /\ \A i, j \in DOMAIN seen : i # j => seen[i] # seen[j]
            /\ \A k \in DOMAIN G.edges :
                  G.edges[k].u \in DOMAIN G.data /\ G.edges[k].v \in DOMAIN G.data

\* the raw name of the subject of item i
RawSubject(i) == Or(raw_data[i].facility_name, raw_data[i].facility_key)

\* three records were processed and the graph has two nodes: one was first
\* sighted as the target of a relation and came later as a subject, the
\* other came as a subject under two different raw names
TargetSightedAgainAsSubject ==
    /\ pc = "build"
    /\ Len(raw_data) = 3
    /\ Len(G.order) = 2
    /\ \A subjects \in {Subjects}, targets \in {Targets} :
          /\ \A i \in DOMAIN raw_data : Lookup(subjects, i) # <<>>
          /\ \E i, j \in DOMAIN raw_data :
                /\ i < j
                /\ Lookup(targets, i) # <<>>
                /\ Lookup(subjects, j) = Lookup(targets, i)
                /\ \A h \in 1..i : Lookup(subjects, h) # Lookup(targets, i)
          /\ \E i, j \in DOMAIN raw_data :
                /\ Lookup(subjects, i) = Lookup(subjects, j)
                /\ RawSubject(i) # RawSubject(j)
====
